---- MODULE Spec2Model ----
(***************************************************************************)
(* A model of the ProtogameJS3D application: the App frame loop            *)
(* (Startup, RunMainLoop, RunFrame, Shutdown), the Game object and the     *)
(* GameScriptInterface bridge through which script code calls native code. *)
(*                                                                         *)
(* Script code is not part of the native sources: a running script is a    *)
(* nondeterministic caller that may issue any sequence of CallMethod,      *)
(* GetProperty and SetProperty calls on the registered "game" object       *)
(* before it returns.  A script started by a native handler in tail        *)
(* position (Game::HandleJavaScriptCommands, executeCommand, executeFile)  *)
(* issues its calls in the script context that is already open.            *)
(***************************************************************************)
EXTENDS Integers, Sequences, FiniteSets, TLC

(***************************************************************************)
(* Bounds of the model.                                                    *)
(***************************************************************************)
MaxCubes == 1       \* createCube calls the model lets a run make
MaxPlayerX == 1     \* largest x coordinate the player may walk to

(***************************************************************************)
(* Vec3 values are triples of integers.                                    *)
(***************************************************************************)
ZERO == <<0, 0, 0>>
Vec3Add(a, b) == <<a[1] + b[1], a[2] + b[2], a[3] + b[3]>>

(***************************************************************************)
(* ScriptArgs: dynamically typed values.  t is the run-time type.          *)
(***************************************************************************)
Num(n) == [t |-> "num", n |-> n, s |-> ""]
Str(s) == [t |-> "str", n |-> 0, s |-> s]
Bool(b) == [t |-> "bool", n |-> IF b THEN 1 ELSE 0, s |-> ""]

(***************************************************************************)
(* std::to_string on int and float ("%d" and "%f").                        *)
(***************************************************************************)
Digit == <<"0", "1", "2", "3", "4", "5", "6", "7", "8", "9">>

RECURSIVE NatToString(_)
NatToString(n) ==
    IF n < 10 THEN Digit[n + 1]
    ELSE NatToString(n \div 10) \o Digit[(n % 10) + 1]

IntToString(n) == IF n < 0 THEN "-" \o NatToString(0 - n) ELSE NatToString(n)

FloatToString(n) == IntToString(n) \o ".000000"

(***************************************************************************)
(* ScriptMethodResult: Success (with an optional string or bool payload)   *)
(* or Error (with a message).  escaped marks an exception that left the    *)
(* function instead of a returned result.                                  *)
(***************************************************************************)
Success(payload, text) ==
    [success |-> TRUE, escaped |-> FALSE, payload |-> payload, msg |-> text]
Error(text) ==
    [success |-> FALSE, escaped |-> FALSE, payload |-> "none", msg |-> text]
Escaped(what) ==
    [success |-> FALSE, escaped |-> TRUE, payload |-> "none", msg |-> what]

(***************************************************************************)
(* ScriptTypeExtractor (engine code, modelled from the specification).     *)
(* An extraction yields a value or throws a std::exception with a          *)
(* descriptive what().                                                     *)
(***************************************************************************)
ValidateArgCount(args, expectedCount, methodName) ==
    IF Len(args) = expectedCount
    THEN Success("none", "")
    ELSE Error(methodName \o " expects " \o NatToString(expectedCount)
               \o " arguments, got " \o NatToString(Len(args)))

Extracted(v) == [ok |-> TRUE, v |-> v, what |-> ""]
Thrown(what) == [ok |-> FALSE, v |-> Num(0), what |-> what]

ExtractInt(a) ==
    IF a.t = "num" THEN Extracted(a) ELSE Thrown("cannot convert to int")
ExtractFloat(a) ==
    IF a.t = "num" THEN Extracted(a) ELSE Thrown("cannot convert to float")
ExtractString(a) ==
    IF a.t = "str" THEN Extracted(a) ELSE Thrown("cannot convert to string")

\* startIndex is the C++ (0-based) index of the x component.
ExtractVec3(args, startIndex) ==
    IF /\ startIndex + 3 <= Len(args)
       /\ \A k \in 1..3 : args[startIndex + k].t = "num"
    THEN [ok |-> TRUE,
          v |-> <<args[startIndex + 1].n, args[startIndex + 2].n,
                  args[startIndex + 3].n>>,
          what |-> ""]
    ELSE [ok |-> FALSE, v |-> ZERO, what |-> "cannot convert to Vec3"]

(***************************************************************************)
(* Game (Game.hpp, Game.cpp).  A native state g is the record of the Game  *)
(* fields the bridge can reach, the player's position and the static       *)
(* App::m_isQuitting.                                                      *)
(***************************************************************************)
ATTRACT == "ATTRACT"
GAME == "GAME"
eGameState == {ATTRACT, GAME}

InitialPlayerPosition == <<-2, 0, 1>>
InitialProps == << <<2, 2, 0>>, <<-2, -2, 0>>, <<10, -5, 1>>, ZERO >>

\* The fields as the Game constructor leaves them.
NewGame(quitting) ==
    [m_gameState |-> ATTRACT,
     m_props |-> InitialProps,
     m_playerPosition |-> InitialPlayerPosition,
     m_originalPlayerPosition |-> <<-2, 0, 1>>,
     m_cameraShakeActive |-> FALSE,
     m_isQuitting |-> quitting]

\* RequestQuit flipping the flag.
RequestQuitToggling(g) == [g EXCEPT !.m_isQuitting = ~g.m_isQuitting]
RequestQuit(g) == [g EXCEPT !.m_isQuitting = TRUE]

\* IsAttractMode comparing with the wrong enumerator.
IsAttractModeTestingGame(g) == g.m_gameState = GAME
IsAttractMode(g) == g.m_gameState = ATTRACT

GetGameState(g) == g.m_gameState

SetGameState(g, newState) == [g EXCEPT !.m_gameState = newState]

\* The new cube put in front of the props instead of behind them.
CreateCubeAtFront(g, position) == [g EXCEPT !.m_props = <<position>> \o @]

\* CreateCube putting the new cube in the place of the last prop.
CreateCubeReplacingLast(g, position) ==
    [g EXCEPT !.m_props[Len(g.m_props)] = position]

CreateCube(g, position) == [g EXCEPT !.m_props = Append(@, position)]

\* An index past the end taken for the last prop.
MovePropClamped(g, propIndex, newPosition) ==
    IF propIndex >= 0
    THEN [g EXCEPT !.m_props[IF propIndex < Len(g.m_props)
                             THEN propIndex + 1 ELSE Len(g.m_props)] = newPosition]
    ELSE g

MoveProp(g, propIndex, newPosition) ==
    IF propIndex >= 0 /\ propIndex < Len(g.m_props)
    THEN [g EXCEPT !.m_props[propIndex + 1] = newPosition]
    ELSE g

\* MovePlayerCamera adding the offset to the player's current position.
MovePlayerCameraAccumulating(g, offset) ==
    LET g1 == IF ~g.m_cameraShakeActive
              THEN [g EXCEPT !.m_originalPlayerPosition = g.m_playerPosition,
                             !.m_cameraShakeActive = TRUE]
              ELSE g
    IN [g1 EXCEPT !.m_playerPosition = Vec3Add(g.m_playerPosition, offset)]

MovePlayerCamera(g, offset) ==
    LET g1 == IF ~g.m_cameraShakeActive
              THEN [g EXCEPT !.m_originalPlayerPosition = g.m_playerPosition,
                             !.m_cameraShakeActive = TRUE]
              ELSE g
    IN [g1 EXCEPT !.m_playerPosition = Vec3Add(g1.m_originalPlayerPosition, offset)]

(***************************************************************************)
(* One frame's input devices, as Game::Update and Player::Update read      *)
(* them: keys ESC, H, K, controller buttons BACK and START, the player's   *)
(* displacement from the movement keys, and the vector the K-key script    *)
(* draws with Math.random().                                               *)
(***************************************************************************)
NoInput ==
    [esc |-> FALSE, back |-> FALSE, start |-> FALSE, h |-> FALSE,
     k |-> FALSE, move |-> ZERO, rand |-> ZERO, scriptFails |-> FALSE]

PlayerUpdate(g, in) ==
    LET p == IF (in.h \/ in.start) /\ ~IsAttractMode(g)
             THEN ZERO
             ELSE g.m_playerPosition
    IN [g EXCEPT !.m_playerPosition = Vec3Add(p, in.move)]

UpdateEntities(g, in) == PlayerUpdate(g, in)

UpdateFromKeyBoard(g, in) ==
    LET g1 == IF g.m_gameState = ATTRACT /\ in.esc THEN RequestQuit(g) ELSE g
    IN IF g1.m_gameState = GAME /\ in.esc
       THEN [g1 EXCEPT !.m_gameState = ATTRACT]
       ELSE g1

UpdateFromController(g, in) ==
    LET g1 == IF g.m_gameState = ATTRACT /\ in.back THEN RequestQuit(g) ELSE g
        g2 == IF g1.m_gameState = ATTRACT /\ in.start
              THEN [g1 EXCEPT !.m_gameState = GAME]
              ELSE g1
    IN IF g2.m_gameState = GAME /\ in.back
       THEN [g2 EXCEPT !.m_gameState = ATTRACT]
       ELSE g2

\* K held: the command game.moveProp(0, r, 0, r') runs through the bridge.
HandleJavaScriptCommands(g, in) ==
    IF in.k THEN MoveProp(g, 0, in.rand) ELSE g

GameUpdate(g, in) ==
    HandleJavaScriptCommands(
        UpdateFromController(UpdateFromKeyBoard(UpdateEntities(g, in), in), in),
        in)

(***************************************************************************)
(* GameScriptInterface (GameScriptInterface.cpp).  A handler takes the     *)
(* native state and the script's arguments and yields the result it        *)
(* returns with the native state it leaves: [res, g].  Texts that are not  *)
(* ASCII in the source are written with their code points.                 *)
(***************************************************************************)
GetAvailableMethods ==
    << [name |-> "appRequestQuit", params |-> <<>>],
       [name |-> "createCube", params |-> <<"float", "float", "float">>],
       [name |-> "moveProp", params |-> <<"int", "float", "float", "float">>],
       [name |-> "getPlayerPosition", params |-> <<>>],
       [name |-> "movePlayerCamera", params |-> <<"float", "float", "float">>],
       [name |-> "update", params |-> <<"float", "float">>],
       [name |-> "render", params |-> <<>>],
       [name |-> "executeCommand", params |-> <<"string">>],
       [name |-> "executeFile", params |-> <<"string">>],
       [name |-> "isAttractMode", params |-> <<>>],
       [name |-> "getFileTimestamp", params |-> <<"string">>] >>

GetAvailableProperties == <<"attractMode", "gameState">>

Returned(res, g) == [res |-> res, g |-> g]
Throws(what, g) == [res |-> Escaped(what), g |-> g]

\* catch (std::exception const& e) { return Error(prefix + e.what()); }
CatchNothing(prefix, out) == out
CatchStdException(prefix, out) ==
    IF out.res.escaped
    THEN Returned(Error(prefix \o out.res.msg), out.g)
    ELSE out

Vec3Text(v) ==
    FloatToString(v[1]) \o ", " \o FloatToString(v[2]) \o ", "
        \o FloatToString(v[3]) \o ")"

ExecuteAppRequestQuit(g, args) ==
    LET result == ValidateArgCount(args, 0, "appRequestQuit")
    IN IF ~result.success THEN Returned(result, g)
       ELSE CatchStdException(
                "<U+5275><U+5EFA><U+7ACB><U+65B9><U+9AD4><U+5931><U+6557>: ",
                Returned(Success("none", ""), RequestQuit(g)))

\* createCube without the early return on a wrong argument count.
ExecuteCreateCubeUnchecked(g, args) ==
    LET position == ExtractVec3(args, 0)
    IN IF ~position.ok THEN Returned(Error(position.what), g)
       ELSE Returned(Success("string", Vec3Text(position.v)),
                     CreateCube(g, position.v))

ExecuteCreateCube(g, args) ==
    LET result == ValidateArgCount(args, 3, "createCube")
        position == ExtractVec3(args, 0)
    IN IF ~result.success THEN Returned(result, g)
       ELSE CatchStdException(
                "<U+5275><U+5EFA><U+7ACB><U+65B9><U+9AD4><U+5931><U+6557>: ",
                IF ~position.ok THEN Throws(position.what, g)
                ELSE Returned(
                         Success("string",
                                 "<U+7ACB><U+65B9><U+9AD4><U+5275><U+5EFA><U+6210><U+529F><U+FF0C><U+4F4D><U+7F6E>: ("
                                     \o Vec3Text(position.v)),
                         CreateCube(g, position.v)))

\* moveProp writing the coordinates one by one as it extracts them.
ExecuteMovePropPiecewise(g, args) ==
    LET result == ValidateArgCount(args, 4, "moveProp")
        propIndex == ExtractInt(args[1])
        newPosition == ExtractVec3(args, 1)
        partial == [k \in 1..3 |->
                       IF args[1 + k].t = "num" THEN args[1 + k].n ELSE 0]
    IN IF ~result.success THEN Returned(result, g)
       ELSE IF ~propIndex.ok THEN Returned(Error(propIndex.what), g)
       ELSE IF ~newPosition.ok
            THEN Returned(Error(newPosition.what),
                          MoveProp(g, propIndex.v.n, partial))
            ELSE Returned(Success("string", Vec3Text(newPosition.v)),
                          MoveProp(g, propIndex.v.n, newPosition.v))

\* moveProp answering an index out of range with an Error.
ExecuteMovePropRangeChecked(g, args) ==
    LET result == ValidateArgCount(args, 4, "moveProp")
        propIndex == ExtractInt(args[1])
        newPosition == ExtractVec3(args, 1)
    IN IF ~result.success THEN Returned(result, g)
       ELSE IF ~propIndex.ok THEN Returned(Error(propIndex.what), g)
       ELSE IF ~newPosition.ok THEN Returned(Error(newPosition.what), g)
       ELSE IF propIndex.v.n < 0 \/ propIndex.v.n >= Len(g.m_props)
            THEN Returned(Error("invalid prop index"), g)
            ELSE Returned(Success("string", Vec3Text(newPosition.v)),
                          MoveProp(g, propIndex.v.n, newPosition.v))

ExecuteMoveProp(g, args) ==
    LET result == ValidateArgCount(args, 4, "moveProp")
        propIndex == ExtractInt(args[1])
        newPosition == ExtractVec3(args, 1)
    IN IF ~result.success THEN Returned(result, g)
       ELSE CatchStdException(
                "<U+79FB><U+52D5><U+9053><U+5177><U+5931><U+6557>: ",
                IF ~propIndex.ok THEN Throws(propIndex.what, g)
                ELSE IF ~newPosition.ok THEN Throws(newPosition.what, g)
                ELSE Returned(
                         Success("string",
                                 "<U+9053><U+5177> " \o IntToString(propIndex.v.n)
                                     \o " <U+79FB><U+52D5><U+6210><U+529F><U+FF0C><U+65B0><U+4F4D><U+7F6E>: ("
                                     \o Vec3Text(newPosition.v)),
                         MoveProp(g, propIndex.v.n, newPosition.v)))

\* m_player is set by the constructor and never cleared: GetPlayer() is not null.
ExecuteGetPlayerPosition(g, args) ==
    LET result == ValidateArgCount(args, 0, "getPlayerPosition")
        position == g.m_playerPosition
    IN IF ~result.success THEN Returned(result, g)
       ELSE CatchStdException(
                "<U+53D6><U+5F97><U+73A9><U+5BB6><U+4F4D><U+7F6E><U+5931><U+6557>: ",
                Returned(
                    Success("string",
                            "{ x: " \o FloatToString(position[1])
                                \o ", y: " \o FloatToString(position[2])
                                \o ", z: " \o FloatToString(position[3]) \o " }"),
                    g))

ExecuteMovePlayerCamera(g, args) ==
    LET result == ValidateArgCount(args, 3, "movePlayerCamera")
        offset == ExtractVec3(args, 0)
    IN IF ~result.success THEN Returned(result, g)
       ELSE CatchStdException(
                "<U+79FB><U+52D5><U+73A9><U+5BB6><U+76F8><U+6A5F><U+5931><U+6557>: ",
                IF ~offset.ok THEN Throws(offset.what, g)
                ELSE Returned(
                         Success("string",
                                 "<U+76F8><U+6A5F><U+4F4D><U+7F6E><U+5DF2><U+79FB><U+52D5>: ("
                                     \o Vec3Text(offset.v)),
                         MovePlayerCamera(g, offset.v)))

\* Game::Render draws; it writes no field of the native state.
ExecuteRender(g, args) ==
    LET result == ValidateArgCount(args, 0, "Render")
    IN IF ~result.success THEN Returned(result, g)
       ELSE CatchStdException("Render failed: ",
                              Returned(Success("string", "Render Success"), g))

ExecuteUpdate(g, args, in) ==
    LET result == ValidateArgCount(args, 2, "Update")
        gameDeltaSeconds == ExtractFloat(args[1])
        systemDeltaSeconds == ExtractFloat(args[2])
    IN IF ~result.success THEN Returned(result, g)
       ELSE CatchStdException(
                "Update failed: ",
                IF ~gameDeltaSeconds.ok THEN Throws(gameDeltaSeconds.what, g)
                ELSE IF ~systemDeltaSeconds.ok THEN Throws(systemDeltaSeconds.what, g)
                ELSE Returned(Success("string", "Update Success"), GameUpdate(g, in)))

\* Game::ExecuteJavaScriptCommand and Game::ExecuteJavaScriptFile hand the
\* text to the script runtime and log whether it ran (in.scriptFails says it
\* did not); they return void and write no field of the native state.
GameExecuteJavaScriptCommand(g, command, in) == IF in.scriptFails THEN g ELSE g
GameExecuteJavaScriptFile(g, filename, in) == IF in.scriptFails THEN g ELSE g

\* executeCommand answering a failed execution with an Error.
ExecuteJavaScriptCommandReporting(g, args, in) ==
    LET result == ValidateArgCount(args, 1, "executeCommand")
        command == ExtractString(args[1])
    IN IF ~result.success THEN Returned(result, g)
       ELSE IF ~command.ok THEN Returned(Error(command.what), g)
       ELSE IF in.scriptFails THEN Returned(Error("execution failed"), g)
       ELSE Returned(Success("string", command.v.s), g)

ExecuteJavaScriptCommand(g, args, in) ==
    LET result == ValidateArgCount(args, 1, "executeCommand")
        command == ExtractString(args[1])
    IN IF ~result.success THEN Returned(result, g)
       ELSE CatchStdException(
                "<U+57F7><U+884C> JavaScript <U+6307><U+4EE4><U+5931><U+6557>: ",
                IF ~command.ok THEN Throws(command.what, g)
                ELSE Returned(
                         Success("string",
                                 "<U+6307><U+4EE4><U+57F7><U+884C>: " \o command.v.s),
                         GameExecuteJavaScriptCommand(g, command.v.s, in)))

ExecuteJavaScriptFile(g, args, in) ==
    LET result == ValidateArgCount(args, 1, "executeFile")
        filename == ExtractString(args[1])
    IN IF ~result.success THEN Returned(result, g)
       ELSE CatchStdException(
                "<U+57F7><U+884C> JavaScript <U+6A94><U+6848><U+5931><U+6557>: ",
                IF ~filename.ok THEN Throws(filename.what, g)
                ELSE Returned(
                         Success("string",
                                 "<U+6A94><U+6848><U+57F7><U+884C>: " \o filename.v.s),
                         GameExecuteJavaScriptFile(g, filename.v.s, in)))

\* isAttractMode with the comparison written as an assignment.
ExecuteIsAttractModeAssigning(g, args) ==
    LET result == ValidateArgCount(args, 0, "isAttractMode")
    IN IF ~result.success THEN Returned(result, g)
       ELSE Returned(Success("bool", "true"), SetGameState(g, ATTRACT))

ExecuteIsAttractMode(g, args) ==
    LET result == ValidateArgCount(args, 0, "isAttractMode")
    IN IF ~result.success THEN Returned(result, g)
       ELSE CatchStdException(
                "<U+6AA2><U+67E5><U+5438><U+5F15><U+6A21><U+5F0F><U+5931><U+6557>: ",
                Returned(Success("bool", IF IsAttractMode(g) THEN "true" ELSE "false"),
                         g))

\* An unmatched name that is let through.
UnknownMethodIgnored(methodName) == Success("none", "")

UnknownMethod(methodName) ==
    Error("<U+672A><U+77E5><U+7684><U+65B9><U+6CD5>: " \o methodName)

Dispatch(g, methodName, args, in) ==
    CASE methodName = "appRequestQuit" -> ExecuteAppRequestQuit(g, args)
      [] methodName = "createCube" -> ExecuteCreateCube(g, args)
      [] methodName = "moveProp" -> ExecuteMoveProp(g, args)
      [] methodName = "getPlayerPosition" -> ExecuteGetPlayerPosition(g, args)
      [] methodName = "movePlayerCamera" -> ExecuteMovePlayerCamera(g, args)
      [] methodName = "update" -> ExecuteUpdate(g, args, in)
      [] methodName = "render" -> ExecuteRender(g, args)
      [] methodName = "executeCommand" -> ExecuteJavaScriptCommand(g, args, in)
      [] methodName = "executeFile" -> ExecuteJavaScriptFile(g, args, in)
      [] methodName = "isAttractMode" -> ExecuteIsAttractMode(g, args)
      [] OTHER -> Returned(UnknownMethod(methodName), g)

CallMethod(g, methodName, args, in) ==
    CatchStdException(
        "<U+65B9><U+6CD5><U+57F7><U+884C><U+6642><U+767C><U+751F><U+4F8B><U+5916>: ",
        Dispatch(g, methodName, args, in))

\* std::any values: Bool(b), Str(s), or empty.
Empty == [t |-> "empty", n |-> 0, s |-> ""]

\* Any name but attractMode read as gameState.
GetPropertyDefaulting(g, propertyName) ==
    IF propertyName = "attractMode" THEN Bool(IsAttractMode(g))
    ELSE Str(GetGameState(g))

GetProperty(g, propertyName) ==
    IF propertyName = "attractMode" THEN Bool(IsAttractMode(g))
    ELSE IF propertyName = "gameState"
    THEN CASE GetGameState(g) = ATTRACT -> Str("ATTRACT")
           [] GetGameState(g) = GAME -> Str("GAME")
           [] OTHER -> Str("UNKNOWN")
    ELSE Empty

\* Variants of SetProperty: one spelling per state only; an unnamed state
\* taken for ATTRACT; the property name not looked at.
SetPropertyOneSpelling(g, propertyName, value) ==
    IF propertyName = "gameState" /\ value.t = "str" /\ value.s \in {"ATTRACT", "GAME"}
    THEN [ret |-> TRUE, g |-> SetGameState(g, value.s)]
    ELSE [ret |-> FALSE, g |-> g]

SetPropertyDefaulting(g, propertyName, value) ==
    IF propertyName = "gameState" /\ value.t = "str"
    THEN [ret |-> TRUE,
          g |-> SetGameState(g, IF value.s \in {"GAME", "game", "1"}
                                THEN GAME ELSE ATTRACT)]
    ELSE [ret |-> FALSE, g |-> g]

SetPropertyAnyName(g, propertyName, value) ==
    IF value.t # "str" THEN [ret |-> FALSE, g |-> g]
    ELSE IF value.s \in {"ATTRACT", "attract", "0"}
    THEN [ret |-> TRUE, g |-> SetGameState(g, ATTRACT)]
    ELSE IF value.s \in {"GAME", "game", "1"}
    THEN [ret |-> TRUE, g |-> SetGameState(g, GAME)]
    ELSE [ret |-> FALSE, g |-> g]

\* [ret, g]: the bool SetProperty returns and the native state it leaves.
SetProperty(g, propertyName, value) ==
    LET stateStr == ExtractString(value)
    IN IF propertyName = "gameState"
       THEN IF ~stateStr.ok THEN [ret |-> FALSE, g |-> g]
            ELSE IF stateStr.v.s \in {"ATTRACT", "attract", "0"}
            THEN [ret |-> TRUE, g |-> SetGameState(g, ATTRACT)]
            ELSE IF stateStr.v.s \in {"GAME", "game", "1"}
            THEN [ret |-> TRUE, g |-> SetGameState(g, GAME)]
            ELSE [ret |-> FALSE, g |-> g]
       ELSE [ret |-> FALSE, g |-> g]

(***************************************************************************)
(* App (App.cpp, Main_Windows.cpp).                                        *)
(***************************************************************************)
\* App::Startup with PostInit called before the scripting bindings are set up.
StartupStepsPostInitEarly ==
    << "new EventSystem", "new JobSystem", "GEngine::Initialize",
       "new InputSystem", "new Window", "new Renderer", "new DevConsole",
       "new LogSubsystem", "new AudioSystem", "new ResourceSubsystem",
       "new ScriptSubsystem",
       "LogSubsystem::Startup", "EventSystem::Startup", "Window::Startup",
       "Renderer::Startup", "ResourceSubsystem::Initialize",
       "DebugRenderSystemStartup", "DevConsole::StartUp", "InputSystem::Startup",
       "AudioSystem::Startup", "ResourceSubsystem::Startup",
       "ScriptSubsystem::Startup",
       "CreateOrGetBitmapFontFromFile", "new RandomNumberGenerator",
       "new Game", "Game::PostInit", "SetupScriptingBindings" >>

\* App::Startup, statement by statement.
StartupSteps ==
    << "new EventSystem", "new JobSystem", "GEngine::Initialize",
       "new InputSystem", "new Window", "new Renderer", "new DevConsole",
       "new LogSubsystem", "new AudioSystem", "new ResourceSubsystem",
       "new ScriptSubsystem",
       "LogSubsystem::Startup", "EventSystem::Startup", "Window::Startup",
       "Renderer::Startup", "ResourceSubsystem::Initialize",
       "DebugRenderSystemStartup", "DevConsole::StartUp", "InputSystem::Startup",
       "AudioSystem::Startup", "ResourceSubsystem::Startup",
       "ScriptSubsystem::Startup",
       "CreateOrGetBitmapFontFromFile", "new RandomNumberGenerator",
       "new Game", "SetupScriptingBindings", "Game::PostInit" >>

\* App::Shutdown with the font deleted after the renderer has shut down.
ShutdownStepsFontLast ==
    << "ScriptSubsystem::Shutdown", "m_gameScriptInterface.reset",
       "delete g_game", "delete g_rng",
       "AudioSystem::Shutdown", "InputSystem::Shutdown", "DevConsole::Shutdown",
       "delete m_devConsoleCamera", "DebugRenderSystemShutdown",
       "ResourceSubsystem::Shutdown",
       "Renderer::Shutdown", "delete g_bitmapFont",
       "Window::Shutdown", "EventSystem::Shutdown",
       "delete g_audio", "delete g_renderer", "delete g_window",
       "delete g_input", "delete g_devConsole", "delete g_eventSystem",
       "GEngine::Shutdown", "JobSystem::ShutDown", "LogSubsystem::Shutdown",
       "delete g_app" >>

\* App::Shutdown, statement by statement, then WinMain's release of g_app.
ShutdownSteps ==
    << "ScriptSubsystem::Shutdown", "m_gameScriptInterface.reset",
       "delete g_game", "delete g_rng",
       "AudioSystem::Shutdown", "InputSystem::Shutdown", "DevConsole::Shutdown",
       "delete m_devConsoleCamera", "DebugRenderSystemShutdown",
       "delete g_bitmapFont", "ResourceSubsystem::Shutdown",
       "Renderer::Shutdown", "Window::Shutdown", "EventSystem::Shutdown",
       "delete g_audio", "delete g_renderer", "delete g_window",
       "delete g_input", "delete g_devConsole", "delete g_eventSystem",
       "GEngine::Shutdown", "JobSystem::ShutDown", "LogSubsystem::Shutdown",
       "delete g_app" >>

\* App::RunFrame: the phases in the order it calls them.
RunFrameMutant == <<"BeginFrame", "Render", "Update", "EndFrame">>
RunFrameOrder == <<"BeginFrame", "Update", "Render", "EndFrame">>

\* while (!m_isQuitting): does RunMainLoop run another frame?
LoopAlways(quitting) == TRUE
LoopContinues(quitting) == ~quitting

VARIABLES
    pc,                 \* "Startup", "RunMainLoop", "RunFrame", "Shutdown", "Exit", "Dead"
    si,                 \* index of the next statement of Startup or Shutdown
    fi,                 \* index in RunFrameOrder of the phase in progress
    sub,                \* position inside the statement or phase in progress
    log,                \* the phase events of the current (or last) frame
    quitAtFrameStart,   \* m_isQuitting as it was when the current frame started
    scriptInitialized,  \* g_scriptSubsystem->IsInitialized()
    registry,           \* names of the registered scriptable objects
    globalFunctions,    \* names of the registered global functions
    registrations,      \* the names registered so far, one per Register... call
    m_game,             \* m_gameScriptInterface->m_game, "none" with no interface
    hotReload,          \* what InitializeHotReload returned: "none", "ok", "failed"
    g_game,             \* "null", "live" or "deleted"
    game,               \* the fields of *g_game
    m_isQuitting,       \* App::m_isQuitting
    last                \* the bridge call made by the last step, or NoCall

vars ==
    <<pc, si, fi, sub, log, quitAtFrameStart, scriptInitialized, registry,
      globalFunctions, registrations, m_game, hotReload, g_game, game,
      m_isQuitting, last>>

scriptVars ==
    <<scriptInitialized, registry, globalFunctions, registrations, m_game, hotReload>>
frameVars == <<fi, log, quitAtFrameStart>>

\* The native state the bridge works on, and its parts.
Native ==
    [m_gameState |-> game.m_gameState,
     m_props |-> game.m_props,
     m_playerPosition |-> game.m_playerPosition,
     m_originalPlayerPosition |-> game.m_originalPlayerPosition,
     m_cameraShakeActive |-> game.m_cameraShakeActive,
     m_isQuitting |-> m_isQuitting]

GameOf(g) ==
    [m_gameState |-> g.m_gameState,
     m_props |-> g.m_props,
     m_playerPosition |-> g.m_playerPosition,
     m_originalPlayerPosition |-> g.m_originalPlayerPosition,
     m_cameraShakeActive |-> g.m_cameraShakeActive]

\* The fields before the constructor has run.
NullGame == [GameOf(NewGame(FALSE)) EXCEPT !.m_props = <<>>]

NoCall ==
    [op |-> "none", name |-> "", args |-> <<>>, res |-> Success("none", ""),
     val |-> Empty, ret |-> FALSE, pre |-> NewGame(FALSE), in |-> NoInput]

Init ==
    /\ pc = "Startup"
    /\ si = 1
    /\ fi = 1
    /\ sub = "run"
    /\ log = <<>>
    /\ quitAtFrameStart = FALSE
    /\ scriptInitialized = FALSE
    /\ registry = {}
    /\ globalFunctions = {}
    /\ registrations = <<>>
    /\ m_game = "none"
    /\ hotReload = "none"
    /\ g_game = "null"
    /\ game = NullGame
    /\ m_isQuitting = FALSE
    /\ last = NoCall

(***************************************************************************)
(* What the environment supplies: the calls a script makes, the state of   *)
(* the input devices, the window's close button.                           *)
(***************************************************************************)
V1 == <<1, 2, 3>>
Vecs == {ZERO, V1}
ArgsOfVec(v) == <<Num(v[1]), Num(v[2]), Num(v[3])>>
Indexes == {-1, 0, Len(InitialProps), 99}

\* One argument list of each length 0..5, all numbers.
CountLists ==
    {<<>>, <<Num(1)>>, <<Num(0), Num(0)>>, ArgsOfVec(V1),
     <<Num(0)>> \o ArgsOfVec(V1),
     <<Num(0), Num(1), Num(2), Num(3), Num(4)>>}

AvailableMethodNames ==
    {GetAvailableMethods[i].name : i \in 1..Len(GetAvailableMethods)}

MethodNames == AvailableMethodNames \cup {"bogus", "CreateCube"}

Call(methodName, args) == [name |-> methodName, args |-> args]

\* The calls of a script that exercises the whole bridge.
BridgeCalls ==
    {Call(m, a) : m \in MethodNames, a \in CountLists}
    \cup {Call(m, a) : m \in {"createCube", "movePlayerCamera"},
                       a \in {ArgsOfVec(ZERO), <<Str("x"), Num(2), Num(3)>>}}
    \cup {Call("moveProp", <<Num(i)>> \o ArgsOfVec(v)) : i \in Indexes, v \in Vecs}
    \cup {Call("moveProp", a) : a \in {<<Str("x"), Num(1), Num(2), Num(3)>>,
                                       <<Num(0), Num(1), Num(2), Str("x")>>}}
    \cup {Call("update", <<Str("x"), Num(0)>>)}
    \cup {Call(m, <<Str("a.js")>>) :
              m \in {"executeCommand", "executeFile", "getFileTimestamp"}}

PropertyNames == {"gameState", "attractMode", "bogus"}

PropertyValues ==
    {Str(x) : x \in {"ATTRACT", "attract", "0", "GAME", "game", "1",
                     "Game", "Attract", "nonsense"}}
    \cup {Num(1), Bool(TRUE)}

Write(propertyName, value) == [name |-> propertyName, value |-> value]

BridgeWrites ==
    {Write("gameState", v) : v \in PropertyValues}
    \cup {Write(n, Str("GAME")) : n \in PropertyNames}

Inputs ==
    {NoInput,
     [NoInput EXCEPT !.esc = TRUE],
     [NoInput EXCEPT !.back = TRUE],
     [NoInput EXCEPT !.start = TRUE],
     [NoInput EXCEPT !.back = TRUE, !.start = TRUE],
     [NoInput EXCEPT !.h = TRUE],
     [NoInput EXCEPT !.k = TRUE, !.rand = <<-5, 0, 5>>],
     [NoInput EXCEPT !.move = <<1, 0, 0>>]}

\* A command or a file that a script has the game execute runs through, or
\* fails (a syntax error, a missing file).
ScriptOutcomes == {NoInput, [NoInput EXCEPT !.scriptFails = TRUE]}

\* The calls and the devices of the frame loop's scripts in the full model.
FrameCalls ==
    {Call("appRequestQuit", <<>>), Call("update", <<Num(0), Num(0)>>),
     Call("render", <<>>), Call("isAttractMode", <<>>), Call("update", <<>>)}

FrameInputs ==
    {in \in Inputs : ~in.h /\ ~in.k /\ in.move = ZERO}

FrameWrites == {Write("gameState", Str("GAME")), Write("gameState", Str("nonsense"))}

\* The model lets the player walk only while x is below this limit.
WalkLimit == InitialPlayerPosition[1] + MaxPlayerX

(***************************************************************************)
(* App::Startup.                                                           *)
(***************************************************************************)
AtStartup(statement) ==
    pc = "Startup" /\ sub = "run" /\ StartupSteps[si] = statement

StartupNext ==
    /\ pc' = pc
    /\ si' = si + 1
    /\ sub' = "run"

ERROR_AND_DIE ==
    /\ pc' = "Dead"
    /\ UNCHANGED <<si, sub>>

PlainStartupSteps ==
    {"new EventSystem", "new JobSystem", "GEngine::Initialize",
     "new InputSystem", "new Window", "new Renderer", "new DevConsole",
     "new LogSubsystem", "new AudioSystem", "new ResourceSubsystem",
     "new ScriptSubsystem",
     "LogSubsystem::Startup", "EventSystem::Startup", "Window::Startup",
     "Renderer::Startup", "ResourceSubsystem::Initialize",
     "DebugRenderSystemStartup", "DevConsole::StartUp", "InputSystem::Startup",
     "AudioSystem::Startup", "ResourceSubsystem::Startup",
     "CreateOrGetBitmapFontFromFile", "new RandomNumberGenerator"}

StartupStatement ==
    /\ pc = "Startup" /\ sub = "run" /\ StartupSteps[si] \in PlainStartupSteps
    /\ StartupNext
    /\ last' = NoCall
    /\ UNCHANGED <<frameVars, scriptVars, g_game, game, m_isQuitting>>

\* g_scriptSubsystem->Startup(): the script runtime comes up, or fails to.
ScriptSubsystemStartup ==
    /\ AtStartup("ScriptSubsystem::Startup")
    /\ \E ok \in BOOLEAN : scriptInitialized' = ok
    /\ StartupNext
    /\ last' = NoCall
    /\ UNCHANGED <<frameVars, registry, globalFunctions, registrations, m_game,
                   hotReload, g_game, game, m_isQuitting>>

\* The Game constructor running its script without testing the runtime.
GameConstructorUnchecked ==
    /\ AtStartup("new Game")
    /\ game' = GameOf(NewGame(m_isQuitting))
    /\ pc' = pc /\ si' = si /\ sub' = "script"
    /\ last' = NoCall
    /\ UNCHANGED <<frameVars, scriptVars, g_game, m_isQuitting>>

\* g_game = new Game(): the constructor spawns the player and the props and
\* ends with ExecuteJavaScriptFile("Data/Scripts/test_scripts.js").
GameConstructor ==
    /\ AtStartup("new Game")
    /\ game' = GameOf(NewGame(m_isQuitting))
    /\ IF scriptInitialized
       THEN pc' = pc /\ si' = si /\ sub' = "script"
       ELSE ERROR_AND_DIE
    /\ last' = NoCall
    /\ UNCHANGED <<frameVars, scriptVars, g_game, m_isQuitting>>

\* test_scripts.js has run: the constructor returns and App::Startup assigns
\* the new object to g_game.
GameConstructorReturn ==
    /\ pc = "Startup" /\ sub = "script" /\ StartupSteps[si] = "new Game"
    /\ last = NoCall
    /\ g_game' = "live"
    /\ StartupNext
    /\ last' = NoCall
    /\ UNCHANGED <<frameVars, scriptVars, game, m_isQuitting>>

\* GameScriptInterface::GameScriptInterface(Game* game): m_game(game), then
\* the test of the global g_game, whose value is `global'.
GameScriptInterface(gamePointer, global) ==
    [died |-> global = "null", m_game |-> gamePointer]

\* RegisterScriptableObject for each of `objects', then RegisterGlobalFunction
\* for each of `functions'.
Names(s) == {s[i] : i \in DOMAIN s}
Register(objects, functions) ==
    /\ registry' = registry \cup Names(objects)
    /\ globalFunctions' = globalFunctions \cup Names(functions)
    /\ registrations' = registrations \o objects \o functions

\* g_scriptSubsystem->InitializeHotReload(projectRoot): it answers true or
\* false, and the caller logs the one or warns of the other.
InitializeHotReload ==
    \E initialized \in BOOLEAN :
        hotReload' = IF initialized THEN "ok" ELSE "failed"

BindingsDie ==
    /\ ERROR_AND_DIE
    /\ UNCHANGED <<registry, globalFunctions, registrations, m_game, hotReload>>

\* SetupScriptingBindings with the test of the script subsystem made after
\* the registrations.
SetupScriptingBindingsCheckingLate ==
    /\ AtStartup("SetupScriptingBindings")
    /\ IF g_game = "null"
       THEN BindingsDie
       ELSE /\ InitializeHotReload
            /\ m_game' = g_game
            /\ Register(<<"game", "input", "audio">>, <<"print", "debug", "gc">>)
            /\ IF scriptInitialized THEN StartupNext ELSE ERROR_AND_DIE
    /\ last' = NoCall
    /\ UNCHANGED <<frameVars, scriptInitialized, g_game, game, m_isQuitting>>

\* SetupScriptingBindings without the registration of gc.
SetupScriptingBindingsWithoutGc ==
    /\ AtStartup("SetupScriptingBindings")
    /\ IF ~scriptInitialized \/ g_game = "null"
       THEN BindingsDie
       ELSE /\ InitializeHotReload
            /\ m_game' = g_game
            /\ Register(<<"game", "input", "audio">>, <<"print", "debug">>)
            /\ StartupNext
    /\ last' = NoCall
    /\ UNCHANGED <<frameVars, scriptInitialized, g_game, game, m_isQuitting>>

\* App::SetupScriptingBindings: the three tests, InitializeHotReload (whose
\* failure is only logged), the three objects, the three functions.
\* SetupScriptingBindings treating a failed InitializeHotReload as fatal.
SetupScriptingBindingsRequiringHotReload ==
    /\ AtStartup("SetupScriptingBindings")
    /\ IF ~scriptInitialized \/ g_game = "null"
       THEN BindingsDie
       ELSE \E initialized \in BOOLEAN :
                IF initialized
                THEN /\ hotReload' = "ok"
                     /\ m_game' = g_game
                     /\ Register(<<"game", "input", "audio">>,
                                 <<"print", "debug", "gc">>)
                     /\ StartupNext
                ELSE /\ hotReload' = "failed"
                     /\ ERROR_AND_DIE
                     /\ UNCHANGED <<registry, globalFunctions, registrations, m_game>>
    /\ last' = NoCall
    /\ UNCHANGED <<frameVars, scriptInitialized, g_game, game, m_isQuitting>>

SetupScriptingBindings ==
    /\ AtStartup("SetupScriptingBindings")
    /\ IF ~scriptInitialized \/ g_game = "null"
       THEN BindingsDie
       ELSE LET gameScriptInterface == GameScriptInterface(g_game, g_game)
            IN IF gameScriptInterface.died
               THEN BindingsDie
               ELSE /\ InitializeHotReload
                    /\ m_game' = gameScriptInterface.m_game
                    /\ Register(<<"game", "input", "audio">>,
                                <<"print", "debug", "gc">>)
                    /\ StartupNext
    /\ last' = NoCall
    /\ UNCHANGED <<frameVars, scriptInitialized, g_game, game, m_isQuitting>>

\* g_game->PostInit(): InitializeJavaScriptFramework runs Data/Scripts/main.mjs.
PostInit ==
    /\ AtStartup("Game::PostInit")
    /\ pc' = pc /\ si' = si
    /\ sub' = IF scriptInitialized THEN "script" ELSE "done"
    /\ last' = NoCall
    /\ UNCHANGED <<frameVars, scriptVars, g_game, game, m_isQuitting>>

StartupDone ==
    /\ pc = "Startup" /\ sub = "done"
    /\ pc' = "RunMainLoop" /\ si' = 1 /\ sub' = "run"
    /\ last' = NoCall
    /\ UNCHANGED <<frameVars, scriptVars, g_game, game, m_isQuitting>>

(***************************************************************************)
(* App::RunMainLoop and App::RunFrame.                                     *)
(***************************************************************************)
Phase == RunFrameOrder[fi]

InPhase(phase, at) == pc = "RunFrame" /\ Phase = phase /\ sub = at

Event(phase, what) == <<phase, what>>

\* The phase in progress returns to RunFrame.
PhaseDone ==
    /\ sub' = "run"
    /\ IF fi < Len(RunFrameOrder)
       THEN pc' = pc /\ fi' = fi + 1
       ELSE pc' = "RunMainLoop" /\ fi' = fi

RunMainLoop ==
    /\ pc = "RunMainLoop"
    /\ IF LoopContinues(m_isQuitting)
       THEN /\ pc' = "RunFrame"
            /\ fi' = 1
            /\ log' = <<>>
            /\ quitAtFrameStart' = m_isQuitting
            /\ si' = si
       ELSE /\ pc' = "Shutdown"
            /\ si' = 1
            /\ UNCHANGED frameVars
    /\ sub' = "run"
    /\ last' = NoCall
    /\ UNCHANGED <<scriptVars, g_game, game, m_isQuitting>>

\* BeginFrame draining the pending hot reload as well.
BeginFrameDraining ==
    /\ pc = "RunFrame" /\ RunFrameOrder[fi] = "BeginFrame" /\ sub = "run"
    /\ log' = log \o << <<"BeginFrame", "begin">>,
                        <<"BeginFrame", "ScriptSubsystem::Update">>,
                        <<"BeginFrame", "end">> >>
    /\ \E closeClicked \in BOOLEAN :
           m_isQuitting' = (m_isQuitting \/ closeClicked)
    /\ sub' = "run" /\ pc' = pc /\ fi' = fi + 1
    /\ last' = NoCall
    /\ UNCHANGED <<si, quitAtFrameStart, scriptVars, g_game, game>>

\* The begin hooks of the subsystems; the window's message pump may deliver
\* the close button or the quit event (App::OnCloseButtonClicked).
BeginFrame ==
    /\ InPhase("BeginFrame", "run")
    /\ log' = log \o <<Event("BeginFrame", "begin"), Event("BeginFrame", "end")>>
    /\ \E closeClicked \in BOOLEAN :
           m_isQuitting' = (m_isQuitting \/ closeClicked)
    /\ PhaseDone
    /\ last' = NoCall
    /\ UNCHANGED <<si, quitAtFrameStart, scriptVars, g_game, game>>

\* The commands Game::UpdateJS and Game::RenderJS hand to the script runtime.
UpdateJSCommand == "JSEngine.update(gameDeltaSeconds, systemDeltaSeconds)"
RenderJSCommand == "JSEngine.render()"

\* What Game::ExecuteJavaScriptCommand logs when ExecuteScript returns false.
Failed(command) == command \o " failed"

\* App::Update up to the call of UpdateJS: the system clock ticks, the cursor
\* mode is set, g_scriptSubsystem->Update() drains a pending hot reload.
AppUpdate ==
    /\ InPhase("Update", "run")
    /\ log' = log \o <<Event("Update", "begin"),
                       Event("Update", "Clock::TickSystemClock"),
                       Event("Update", "ScriptSubsystem::Update")>>
    /\ \E reloadPending \in BOOLEAN :
           sub' = IF reloadPending /\ scriptInitialized THEN "reload" ELSE "updatejs"
    /\ last' = NoCall
    /\ UNCHANGED <<pc, si, fi, quitAtFrameStart, scriptVars, g_game, game, m_isQuitting>>

\* The reloaded scripts have run.
HotReloadReturn ==
    /\ InPhase("Update", "reload") /\ last = NoCall
    /\ sub' = "updatejs"
    /\ last' = NoCall
    /\ UNCHANGED <<pc, si, frameVars, scriptVars, g_game, game, m_isQuitting>>

\* UpdateJS with the fallback to Game::Update that the source has commented out.
UpdateJSWithFallback ==
    /\ InPhase("Update", "updatejs")
    /\ IF scriptInitialized
       THEN /\ sub' = "script"
            /\ log' = log \o <<Event("Update", UpdateJSCommand)>>
            /\ UNCHANGED <<pc, fi>>
       ELSE /\ log' = log \o <<Event("Update", "Game::Update"), Event("Update", "end")>>
            /\ PhaseDone
    /\ last' = NoCall
    /\ UNCHANGED <<si, quitAtFrameStart, scriptVars, g_game, game, m_isQuitting>>

\* Game::UpdateJS: globalThis.JSEngine.update(gameDelta, systemDelta) is run
\* when the script runtime is initialized; otherwise nothing is.
UpdateJS ==
    /\ InPhase("Update", "updatejs")
    /\ IF scriptInitialized
       THEN /\ sub' = "script"
            /\ log' = log \o <<Event("Update", UpdateJSCommand)>>
            /\ UNCHANGED <<pc, fi>>
       ELSE /\ log' = log \o <<Event("Update", "end")>>
            /\ PhaseDone
    /\ last' = NoCall
    /\ UNCHANGED <<si, quitAtFrameStart, scriptVars, g_game, game, m_isQuitting>>

\* The update script ends and a failure of it ends the process.
UpdateJSReturnDying ==
    /\ InPhase("Update", "script") /\ last = NoCall
    /\ \E success \in BOOLEAN :
           IF success
           THEN log' = log \o <<Event("Update", "end")>> /\ PhaseDone
           ELSE /\ log' = log \o <<Event("Update", Failed(UpdateJSCommand))>>
                /\ ERROR_AND_DIE /\ fi' = fi
    /\ last' = NoCall
    /\ UNCHANGED <<si, quitAtFrameStart, scriptVars, g_game, game, m_isQuitting>>

\* The update script has run to its end or has failed: ExecuteScript returns
\* true or false, and Game::ExecuteJavaScriptCommand logs the failure.
UpdateJSReturn ==
    /\ InPhase("Update", "script") /\ last = NoCall
    /\ \E success \in BOOLEAN :
           log' = log \o (IF success THEN <<>>
                          ELSE <<Event("Update", Failed(UpdateJSCommand))>>)
                      \o <<Event("Update", "end")>>
    /\ PhaseDone
    /\ last' = NoCall
    /\ UNCHANGED <<si, quitAtFrameStart, scriptVars, g_game, game, m_isQuitting>>

\* App::Render with the fallback to Game::Render that the source has commented out.
AppRenderWithFallback ==
    /\ InPhase("Render", "run")
    /\ IF scriptInitialized
       THEN /\ sub' = "script"
            /\ log' = log \o <<Event("Render", "begin"),
                               Event("Render", "Renderer::ClearScreen"),
                               Event("Render", RenderJSCommand)>>
            /\ UNCHANGED <<pc, fi>>
       ELSE /\ log' = log \o <<Event("Render", "begin"),
                               Event("Render", "Renderer::ClearScreen"),
                               Event("Render", "Game::Render"),
                               Event("Render", "DevConsole::Render"),
                               Event("Render", "end")>>
            /\ PhaseDone
    /\ last' = NoCall
    /\ UNCHANGED <<si, quitAtFrameStart, scriptVars, g_game, game, m_isQuitting>>

\* App::Render: the screen is cleared, Game::RenderJS runs
\* globalThis.JSEngine.render() when the script runtime is initialized,
\* the dev console is drawn.
AppRender ==
    /\ InPhase("Render", "run")
    /\ IF scriptInitialized
       THEN /\ sub' = "script"
            /\ log' = log \o <<Event("Render", "begin"),
                               Event("Render", "Renderer::ClearScreen"),
                               Event("Render", RenderJSCommand)>>
            /\ UNCHANGED <<pc, fi>>
       ELSE /\ log' = log \o <<Event("Render", "begin"),
                               Event("Render", "Renderer::ClearScreen"),
                               Event("Render", "DevConsole::Render"),
                               Event("Render", "end")>>
            /\ PhaseDone
    /\ last' = NoCall
    /\ UNCHANGED <<si, quitAtFrameStart, scriptVars, g_game, game, m_isQuitting>>

\* RenderJSReturn unregistering the game object when the render entry point
\* has failed.
RenderJSReturnUnregistering ==
    /\ InPhase("Render", "script") /\ last = NoCall
    /\ \E success \in BOOLEAN :
           /\ log' = log \o (IF success THEN <<>>
                             ELSE <<Event("Render", Failed(RenderJSCommand))>>)
                         \o <<Event("Render", "DevConsole::Render"),
                              Event("Render", "end")>>
           /\ registry' = IF success THEN registry ELSE registry \ {"game"}
    /\ PhaseDone
    /\ last' = NoCall
    /\ UNCHANGED <<si, quitAtFrameStart, scriptInitialized, globalFunctions,
                   registrations, m_game, hotReload, g_game, game, m_isQuitting>>

\* The render script has run to its end or has failed; the dev console is drawn.
RenderJSReturn ==
    /\ InPhase("Render", "script") /\ last = NoCall
    /\ \E success \in BOOLEAN :
           log' = log \o (IF success THEN <<>>
                          ELSE <<Event("Render", Failed(RenderJSCommand))>>)
                      \o <<Event("Render", "DevConsole::Render"),
                           Event("Render", "end")>>
    /\ PhaseDone
    /\ last' = NoCall
    /\ UNCHANGED <<si, quitAtFrameStart, scriptVars, g_game, game, m_isQuitting>>

EndFrame ==
    /\ InPhase("EndFrame", "run")
    /\ log' = log \o <<Event("EndFrame", "begin"), Event("EndFrame", "end")>>
    /\ \E closeClicked \in BOOLEAN :
           m_isQuitting' = (m_isQuitting \/ closeClicked)
    /\ PhaseDone
    /\ last' = NoCall
    /\ UNCHANGED <<si, quitAtFrameStart, scriptVars, g_game, game>>

\* main.mjs has run: Startup returns to WinMain, which calls RunMainLoop.
PostInitReturn ==
    /\ pc = "Startup" /\ sub = "script" /\ StartupSteps[si] = "Game::PostInit"
    /\ last = NoCall
    /\ sub' = "done"
    /\ last' = NoCall
    /\ UNCHANGED <<pc, si, frameVars, scriptVars, g_game, game, m_isQuitting>>

(***************************************************************************)
(* A running script calls the "game" object through the bridge.            *)
(***************************************************************************)
ScriptRunning == sub \in {"script", "reload"}

\* The script is between two calls and the "game" object resolves.
GameResolves ==
    ScriptRunning /\ last = NoCall /\ scriptInitialized /\ "game" \in registry

\* The handlers work on *m_game.
CanCallGame == GameResolves /\ m_game = "live"

ScriptCallMethod(calls, inputs) ==
    /\ CanCallGame
    /\ \E c \in calls :
       \E in \in (IF c.name = "update" THEN inputs
                  ELSE IF c.name \in {"executeCommand", "executeFile"}
                       THEN ScriptOutcomes
                       ELSE {NoInput}) :
           LET r == CallMethod(Native, c.name, c.args, in)
           IN /\ Len(r.g.m_props) <= Len(InitialProps) + MaxCubes
              /\ in.move = ZERO \/ game.m_playerPosition[1] < WalkLimit
              /\ game' = GameOf(r.g)
              /\ m_isQuitting' = r.g.m_isQuitting
              /\ last' = [op |-> "CallMethod", name |-> c.name, args |-> c.args,
                          res |-> r.res, val |-> Empty, ret |-> FALSE,
                          pre |-> Native, in |-> in]
    /\ UNCHANGED <<pc, si, sub, frameVars, scriptVars, g_game>>

ScriptGetProperty ==
    /\ CanCallGame
    /\ \E propertyName \in PropertyNames :
           last' = [op |-> "GetProperty", name |-> propertyName, args |-> <<>>,
                    res |-> Success("none", ""),
                    val |-> GetProperty(Native, propertyName), ret |-> FALSE,
                    pre |-> Native, in |-> NoInput]
    /\ UNCHANGED <<pc, si, sub, frameVars, scriptVars, g_game, game, m_isQuitting>>

ScriptSetProperty(writes) ==
    /\ CanCallGame
    /\ \E w \in writes :
           LET r == SetProperty(Native, w.name, w.value)
           IN /\ game' = GameOf(r.g)
              /\ m_isQuitting' = r.g.m_isQuitting
              /\ last' = [op |-> "SetProperty", name |-> w.name,
                          args |-> <<w.value>>, res |-> Success("none", ""),
                          val |-> Empty, ret |-> r.ret, pre |-> Native,
                          in |-> NoInput]
    /\ UNCHANGED <<pc, si, sub, frameVars, scriptVars, g_game>>

\* The call has returned to the script, which runs on.
ScriptResume ==
    /\ ScriptRunning
    /\ last # NoCall
    /\ last' = NoCall
    /\ UNCHANGED <<pc, si, sub, frameVars, scriptVars, g_game, game, m_isQuitting>>

(***************************************************************************)
(* App::Shutdown, then WinMain releases g_app.                             *)
(***************************************************************************)
ShutdownStep ==
    /\ pc = "Shutdown"
    /\ IF si < Len(ShutdownSteps)
       THEN pc' = pc /\ si' = si + 1
       ELSE pc' = "Exit" /\ si' = si
    /\ IF ShutdownSteps[si] = "ScriptSubsystem::Shutdown"
       THEN scriptInitialized' = FALSE /\ registry' = {} /\ globalFunctions' = {}
       ELSE UNCHANGED <<scriptInitialized, registry, globalFunctions>>
    /\ m_game' = IF ShutdownSteps[si] = "m_gameScriptInterface.reset"
                 THEN "none" ELSE m_game
    /\ g_game' = IF ShutdownSteps[si] = "delete g_game" THEN "deleted" ELSE g_game
    /\ last' = NoCall
    /\ UNCHANGED <<sub, frameVars, registrations, hotReload, game, m_isQuitting>>

Next ==
    \/ StartupStatement
    \/ ScriptSubsystemStartup
    \/ GameConstructor
    \/ GameConstructorReturn
    \/ SetupScriptingBindings
    \/ PostInit
    \/ PostInitReturn
    \/ StartupDone
    \/ RunMainLoop
    \/ BeginFrame
    \/ AppUpdate
    \/ HotReloadReturn
    \/ UpdateJS
    \/ UpdateJSReturn
    \/ AppRender
    \/ RenderJSReturn
    \/ EndFrame
    \/ ScriptCallMethod(FrameCalls, FrameInputs)
    \/ ScriptGetProperty
    \/ ScriptSetProperty(FrameWrites)
    \/ ScriptResume
    \/ ShutdownStep

Spec == Init /\ [][Next]_vars

\* The whole program with progress: the thread that runs WinMain is never
\* blocked for good, and every script the program starts returns (its
\* return is possible each time the script is between two calls).
SpecLive ==
    /\ Spec
    /\ WF_vars(Next)
    /\ SF_vars(GameConstructorReturn)
    /\ SF_vars(PostInitReturn)
    /\ SF_vars(HotReloadReturn)
    /\ SF_vars(UpdateJSReturn)
    /\ SF_vars(RenderJSReturn)

(***************************************************************************)
(* The bridge on its own: the update script of the first frame has just    *)
(* been entered and makes any of the calls of BridgeCalls and              *)
(* BridgeWrites, with any state of the input devices.                      *)
(***************************************************************************)
InitBridge ==
    /\ pc = "RunFrame"
    /\ si = 1
    /\ fi = 2
    /\ sub = "script"
    /\ log = <<Event("BeginFrame", "begin"), Event("BeginFrame", "end"),
               Event("Update", "begin"), Event("Update", "Clock::TickSystemClock"),
               Event("Update", "ScriptSubsystem::Update"),
               Event("Update", UpdateJSCommand)>>
    /\ quitAtFrameStart = FALSE
    /\ scriptInitialized = TRUE
    /\ registry = {"game", "input", "audio"}
    /\ globalFunctions = {"print", "debug", "gc"}
    /\ registrations = <<"game", "input", "audio", "print", "debug", "gc">>
    /\ m_game = "live"
    /\ hotReload \in {"ok", "failed"}
    /\ g_game = "live"
    /\ game = GameOf(NewGame(FALSE))
    /\ m_isQuitting = FALSE
    /\ last = NoCall

NextBridge ==
    \/ ScriptCallMethod(BridgeCalls, Inputs)
    \/ ScriptGetProperty
    \/ ScriptSetProperty(BridgeWrites)
    \/ ScriptResume

SpecBridge == InitBridge /\ [][NextBridge]_vars

(***************************************************************************)
(* App::SetupScriptingBindings on its own, called with the script runtime  *)
(* initialized or not and with g_game set or null, and the program from    *)
(* there on.  (A run of the whole program calls it only with both in       *)
(* place: the Game constructor ends the process otherwise.)                *)
(***************************************************************************)
InitBind ==
    /\ pc = "Startup"
    /\ si \in {i \in 1..Len(StartupSteps) : StartupSteps[i] = "SetupScriptingBindings"}
    /\ fi = 1
    /\ sub = "run"
    /\ log = <<>>
    /\ quitAtFrameStart = FALSE
    /\ scriptInitialized \in BOOLEAN
    /\ registry = {}
    /\ globalFunctions = {}
    /\ registrations = <<>>
    /\ m_game = "none"
    /\ hotReload = "none"
    /\ g_game \in {"null", "live"}
    /\ game = IF g_game = "live" THEN GameOf(NewGame(FALSE)) ELSE NullGame
    /\ m_isQuitting = FALSE
    /\ last = NoCall

NextBind ==
    \/ SetupScriptingBindings
    \/ PostInit
    \/ PostInitReturn
    \/ StartupDone
    \/ RunMainLoop
    \/ BeginFrame
    \/ AppUpdate
    \/ HotReloadReturn
    \/ UpdateJS
    \/ UpdateJSReturn
    \/ AppRender
    \/ RenderJSReturn
    \/ EndFrame
    \/ ScriptCallMethod(FrameCalls, FrameInputs)
    \/ ScriptGetProperty
    \/ ScriptSetProperty(FrameWrites)
    \/ ScriptResume
    \/ ShutdownStep

SpecBind == InitBind /\ [][NextBind]_vars

(***************************************************************************)
(* GameScriptInterface on its own: a caller constructs it with a pointer   *)
(* that is null or not, while g_game is null or not, registers it as       *)
(* "game", and a script uses it.  (App::SetupScriptingBindings, the only   *)
(* caller in the program, passes g_game itself.)                           *)
(***************************************************************************)
InitInterface ==
    /\ pc = "Startup"
    /\ si \in {i \in 1..Len(StartupSteps) : StartupSteps[i] = "SetupScriptingBindings"}
    /\ fi = 1
    /\ sub = "construct"
    /\ log = <<>>
    /\ quitAtFrameStart = FALSE
    /\ scriptInitialized = TRUE
    /\ registry = {}
    /\ globalFunctions = {}
    /\ registrations = <<>>
    /\ m_game = "none"
    /\ hotReload = "none"
    /\ g_game \in {"null", "live"}
    /\ game = GameOf(NewGame(FALSE))
    /\ m_isQuitting = FALSE
    /\ last = NoCall

\* std::make_shared<GameScriptInterface>(gamePointer), then
\* RegisterScriptableObject("game", ...).
NewGameScriptInterface ==
    /\ pc = "Startup" /\ sub = "construct"
    /\ \E gamePointer \in {"null", "live"} :
           LET gameScriptInterface == GameScriptInterface(gamePointer, g_game)
           IN /\ last' = [NoCall EXCEPT !.op = "GameScriptInterface",
                                        !.name = gamePointer]
              /\ IF gameScriptInterface.died
                 THEN /\ ERROR_AND_DIE
                      /\ UNCHANGED <<registry, globalFunctions, registrations, m_game>>
                 ELSE /\ m_game' = gameScriptInterface.m_game
                      /\ Register(<<"game">>, <<>>)
                      /\ pc' = pc /\ si' = si /\ sub' = "script"
    /\ UNCHANGED <<frameVars, scriptInitialized, hotReload, g_game, game, m_isQuitting>>

\* A handler dereferences the null m_game: undefined behaviour.  The process
\* is stopped by an access violation, or the handler reads whatever is at
\* the address and returns it (here: isAttractMode with either answer).
NullGameCall ==
    /\ GameResolves /\ m_game = "null"
    /\ \/ pc' = "Dead" /\ last' = last
       \/ /\ pc' = pc
          /\ \E garbage \in BOOLEAN :
                 last' = [op |-> "CallMethod", name |-> "isAttractMode",
                          args |-> <<>>,
                          res |-> Success("bool",
                                          IF garbage THEN "true" ELSE "false"),
                          val |-> Empty, ret |-> FALSE, pre |-> Native,
                          in |-> NoInput]
    /\ UNCHANGED <<si, sub, frameVars, scriptVars, g_game, game, m_isQuitting>>

NextInterface ==
    \/ NewGameScriptInterface
    \/ NullGameCall
    \/ ScriptCallMethod(FrameCalls, FrameInputs)
    \/ ScriptGetProperty
    \/ ScriptSetProperty(FrameWrites)
    \/ ScriptResume

SpecInterface == InitInterface /\ [][NextInterface]_vars

(***************************************************************************)
(* The frame loop on its own, for a script runtime that is initialized and *)
(* for one that is not: Game::UpdateJS and Game::RenderJS test             *)
(* g_scriptSubsystem->IsInitialized() in every frame.  (A run of the whole *)
(* program reaches the loop only with the runtime initialized: without it  *)
(* the Game constructor ends the process.)                                 *)
(***************************************************************************)
InitFrame ==
    /\ pc = "RunMainLoop"
    /\ si = 1
    /\ fi = 1
    /\ sub = "run"
    /\ log = <<>>
    /\ quitAtFrameStart = FALSE
    /\ scriptInitialized \in BOOLEAN
    /\ registry = IF scriptInitialized THEN {"game", "input", "audio"} ELSE {}
    /\ globalFunctions = IF scriptInitialized THEN {"print", "debug", "gc"} ELSE {}
    /\ registrations = IF scriptInitialized
                       THEN <<"game", "input", "audio", "print", "debug", "gc">>
                       ELSE <<>>
    /\ m_game = IF scriptInitialized THEN "live" ELSE "none"
    /\ hotReload \in IF scriptInitialized THEN {"ok", "failed"} ELSE {"none"}
    /\ g_game = "live"
    /\ game = GameOf(NewGame(FALSE))
    /\ m_isQuitting = FALSE
    /\ last = NoCall

NextFrame ==
    \/ RunMainLoop
    \/ BeginFrame
    \/ AppUpdate
    \/ HotReloadReturn
    \/ UpdateJS
    \/ UpdateJSReturn
    \/ AppRender
    \/ RenderJSReturn
    \/ EndFrame
    \/ ScriptCallMethod(FrameCalls, FrameInputs)
    \/ ScriptGetProperty
    \/ ScriptSetProperty(FrameWrites)
    \/ ScriptResume
    \/ ShutdownStep

SpecFrame == InitFrame /\ [][NextFrame]_vars

(***************************************************************************)
(* Properties of the frame loop.                                           *)
(***************************************************************************)
PhaseOrder == <<"BeginFrame", "Update", "Render", "EndFrame">>

IsBegin(e) == e[2] = "begin"
IsEnd(e) == e[2] = "end"
Begun(l) == SelectSeq(l, IsBegin)
Ended(l) == SelectSeq(l, IsEnd)
PhasesOf(l) == [i \in 1..Len(l) |-> l[i][1]]
IsPrefix(s, t) == Len(s) <= Len(t) /\ \A i \in 1..Len(s) : s[i] = t[i]
Before(l, i) == SubSeq(l, 1, i - 1)

\* The events of l are those of one frame, as far as it has run: a phase
\* begins only when every phase before it in PhaseOrder has begun and ended,
\* and every other event lies inside the phase it belongs to.
InOrder(l) ==
    /\ IsPrefix(PhasesOf(Begun(l)), PhaseOrder)
    /\ IsPrefix(PhasesOf(Ended(l)), PhaseOrder)
    /\ \A i \in 1..Len(l) :
           LET b == Len(Begun(Before(l, i)))
               e == Len(Ended(Before(l, i)))
           IN IF IsBegin(l[i])
              THEN b = e
              ELSE b = e + 1 /\ l[i][1] = PhaseOrder[b]

FrameComplete(l) == InOrder(l) /\ PhasesOf(Ended(l)) = PhaseOrder

\* C1: within a frame the phases run in the order BeginFrame, Update, Render,
\* EndFrame, each ending before the next begins, and the loop is back at its
\* test (where the next frame starts) only with all four phases ended.
C1_FrameOrder ==
    /\ InOrder(log)
    /\ pc = "RunFrame" /\ sub = "run" => Len(Ended(log)) = fi - 1
    /\ pc = "RunMainLoop" => log = <<>> \/ FrameComplete(log)

\* A frame has ended, no quit is requested: the next frame is about to start.
C1_Witness == pc = "RunMainLoop" /\ FrameComplete(log) /\ ~m_isQuitting

\* C2: no frame starts once quit is requested, and Shutdown is entered only
\* with quit requested and with the frame that was running (if any) run
\* through the end of EndFrame.
C2_QuitAfterFrame ==
    /\ pc = "RunFrame" => ~quitAtFrameStart
    /\ pc \in {"Shutdown", "Exit"} =>
           m_isQuitting /\ (log = <<>> \/ FrameComplete(log))

\* Quit was raised in a frame before its EndFrame, and the frame has run on.
C2_Witness ==
    /\ pc = "RunFrame" /\ Phase = "EndFrame"
    /\ m_isQuitting /\ ~quitAtFrameStart

(***************************************************************************)
(* Properties of the bridge.  last is the call just made: its name and     *)
(* arguments, what it returned, and the native state before it.            *)
(***************************************************************************)
CalledMethod == last.op = "CallMethod"
WroteProperty == last.op = "SetProperty"

\* The names CallMethod compares methodName with.
DispatchedMethodNames ==
    {"appRequestQuit", "createCube", "moveProp", "getPlayerPosition",
     "movePlayerCamera", "update", "render", "executeCommand", "executeFile",
     "isAttractMode"}

MethodInfo(methodName) ==
    CHOOSE m \in {GetAvailableMethods[i] : i \in 1..Len(GetAvailableMethods)} :
        m.name = methodName

Arity(methodName) == Len(MethodInfo(methodName).params)

TypeFits(type, a) ==
    \/ type \in {"int", "float"} /\ a.t = "num"
    \/ type = "string" /\ a.t = "str"

WellTyped(methodName, args) ==
    /\ Len(args) = Arity(methodName)
    /\ \A i \in 1..Len(args) : TypeFits(MethodInfo(methodName).params[i], args[i])

\* C3: a dispatched method called with a number of arguments other than its
\* arity returns an Error and leaves the props, the player, the game state
\* and the quit flag as they were.
C3_WrongArgCount ==
    (CalledMethod /\ last.name \in DispatchedMethodNames
         /\ Len(last.args) # Arity(last.name))
    => (~last.res.success /\ ~last.res.escaped /\ Native = last.pre)

C3_Witness ==
    /\ CalledMethod /\ last.name = "createCube" /\ Len(last.args) = 4
    /\ ~last.res.success /\ Native = last.pre

\* C4: every method GetAvailableMethods lists, called with the listed
\* number of arguments of the listed types, returns Success.
C4_AvailableMethodsSucceed ==
    (CalledMethod /\ last.name \in AvailableMethodNames
         /\ WellTyped(last.name, last.args))
    => last.res.success

\* C5 (as stated): a name CallMethod does not dispatch yields
\* Error("unknown method: <name>") and no change of native state.
C5_UnknownMethodEnglish ==
    (CalledMethod /\ last.name \notin DispatchedMethodNames)
    => (last.res = Error("unknown method: " \o last.name) /\ Native = last.pre)

\* C5 (amended): a name CallMethod does not dispatch yields the Error whose
\* message is the source's four-character prefix for "unknown method", a
\* colon, a space and the requested name, and no change of native state.
C5_UnknownMethod ==
    (CalledMethod /\ last.name \notin DispatchedMethodNames)
    => /\ last.res = Error("<U+672A><U+77E5><U+7684><U+65B9><U+6CD5>: " \o last.name)
       /\ Native = last.pre

C5_Witness ==
    /\ CalledMethod /\ last.name = "bogus"
    /\ ~last.res.success /\ Native = last.pre
    /\ last.pre.m_gameState = GAME

\* C6: no call of CallMethod ends with an exception leaving it; a dispatched
\* method given the right number of arguments, one of them of the wrong
\* type, returns an Error.
C6_NothingEscapes ==
    CalledMethod =>
        /\ ~last.res.escaped
        /\ (last.name \in DispatchedMethodNames
                /\ Len(last.args) = Arity(last.name)
                /\ ~WellTyped(last.name, last.args))
           => ~last.res.success

\* moveProp with a vector whose last component is a string.
C6_Witness ==
    /\ CalledMethod /\ last.name = "moveProp"
    /\ last.args = <<Num(0), Num(1), Num(2), Str("x")>>
    /\ ~last.res.success /\ ~last.res.escaped

\* C7: writing "GAME", "game" or "1" to gameState returns true and leaves
\* the state before the call with its game state set to GAME, whichever of
\* the three was written; gameState then reads "GAME".
C7_GameSpellings ==
    (WroteProperty /\ last.name = "gameState"
         /\ last.args[1] \in {Str("GAME"), Str("game"), Str("1")})
    => /\ last.ret
       /\ Native = [last.pre EXCEPT !.m_gameState = GAME]
       /\ GetProperty(Native, "gameState") = Str("GAME")

C7_Witness ==
    /\ WroteProperty /\ last.name = "gameState" /\ last.args[1] = Str("1")
    /\ last.pre.m_gameState = ATTRACT /\ game.m_gameState = GAME

AcceptedSpellings == {"ATTRACT", "attract", "0", "GAME", "game", "1"}

\* C8: writing gameState a string that is none of the accepted spellings, or
\* a value that is no string, returns false and gameState reads as before.
C8_RejectedWrite ==
    (WroteProperty /\ last.name = "gameState"
         /\ (last.args[1].t # "str" \/ last.args[1].s \notin AcceptedSpellings))
    => /\ ~last.ret
       /\ GetProperty(Native, "gameState") = GetProperty(last.pre, "gameState")

C8_Witness ==
    /\ WroteProperty /\ last.name = "gameState" /\ last.args[1] = Str("nonsense")
    /\ ~last.ret /\ GetProperty(Native, "gameState") = Str("GAME")

\* The state a spelling names, whatever the case of its letters.
ATTRACTSpellings == {"ATTRACT", "attract", "Attract", "0"}
GAMESpellings == {"GAME", "game", "Game", "1"}

\* C9: writing gameState any upper/lower-case spelling of ATTRACT or GAME,
\* or "0" or "1", returns true and sets the state the spelling names.
C9_CaseInsensitiveWrite ==
    (WroteProperty /\ last.name = "gameState" /\ last.args[1].t = "str"
         /\ last.args[1].s \in ATTRACTSpellings \cup GAMESpellings)
    => /\ last.ret
       /\ game.m_gameState =
              IF last.args[1].s \in GAMESpellings THEN GAME ELSE ATTRACT

\* C10: a write to a property other than gameState returns false, and a
\* write that returns false leaves the native state as it was.
C10_OnlyGameStateWritable ==
    WroteProperty =>
        /\ last.name # "gameState" => ~last.ret
        /\ ~last.ret => Native = last.pre

C10_Witness ==
    /\ WroteProperty /\ last.name = "attractMode" /\ last.args[1] = Str("GAME")
    /\ ~last.ret /\ game.m_gameState = ATTRACT

ReadProperty == last.op = "GetProperty"

\* C11: reading a property other than attractMode and gameState yields the
\* empty value and leaves the native state as it was.
C11_UnknownPropertyEmpty ==
    (ReadProperty /\ last.name \notin {"attractMode", "gameState"})
    => (last.val = Empty /\ Native = last.pre)

C11_Witness ==
    /\ ReadProperty /\ last.name = "bogus" /\ last.val = Empty
    /\ game.m_gameState = GAME

\* C12: after isAttractMode() has returned, the native state is as before
\* the call and a second isAttractMode() made now returns the same result.
C12_IsAttractModeIdempotent ==
    (CalledMethod /\ last.name = "isAttractMode" /\ last.args = <<>>)
    => /\ last.res.success
       /\ Native = last.pre
       /\ CallMethod(Native, "isAttractMode", <<>>, NoInput).res = last.res
       /\ CallMethod(Native, "isAttractMode", <<>>, NoInput).g = Native

C12_Witness ==
    /\ CalledMethod /\ last.name = "isAttractMode" /\ last.args = <<>>
    /\ last.res = Success("bool", "false")
    /\ CallMethod(Native, "isAttractMode", <<>>, NoInput).res.msg = "false"

AllNumbers(args) == \A i \in 1..Len(args) : args[i].t = "num"
VecOf(args, k) == <<args[k].n, args[k + 1].n, args[k + 2].n>>

\* C13: createCube(x, y, z) with three numbers returns Success and leaves
\* the props as before with one prop more, at (x, y, z), behind them.
C13_CreateCubeAppends ==
    (CalledMethod /\ last.name = "createCube" /\ Len(last.args) = 3
         /\ AllNumbers(last.args))
    => /\ last.res.success
       /\ Len(game.m_props) = Len(last.pre.m_props) + 1
       /\ game.m_props[Len(game.m_props)] = VecOf(last.args, 1)
       /\ \A i \in 1..Len(last.pre.m_props) : game.m_props[i] = last.pre.m_props[i]

\* A cube at (1, 2, 3) behind props of which the first had been moved.
C13_Witness ==
    /\ CalledMethod /\ last.name = "createCube" /\ last.args = ArgsOfVec(V1)
    /\ last.res.success
    /\ Len(game.m_props) = Len(InitialProps) + 1
    /\ game.m_props[1] # InitialProps[1]

\* C14: moveProp(i, x, y, z) returns (no exception leaves it) and keeps the
\* number of props; with i outside 0..count-1 every prop is where it was,
\* with i inside it prop i is at (x, y, z) and every other where it was.
C14_MovePropInRangeOnly ==
    (CalledMethod /\ last.name = "moveProp" /\ Len(last.args) = 4
         /\ AllNumbers(last.args))
    => LET i == last.args[1].n
           old == last.pre.m_props
       IN /\ ~last.res.escaped
          /\ Len(game.m_props) = Len(old)
          /\ \A k \in 1..Len(old) :
                 game.m_props[k] =
                     IF k = i + 1 THEN VecOf(last.args, 2) ELSE old[k]

\* moveProp(99, 1, 2, 3) with four props, none of them at (1, 2, 3).
C14_Witness ==
    /\ CalledMethod /\ last.name = "moveProp"
    /\ last.args = <<Num(99)>> \o ArgsOfVec(V1)
    /\ ~last.res.escaped
    /\ Len(game.m_props) = Len(InitialProps)
    /\ game.m_props = last.pre.m_props
    /\ \A k \in 1..Len(game.m_props) : game.m_props[k] # V1

(***************************************************************************)
(* Properties of the Update and Render phases.                             *)
(***************************************************************************)
Whats(l) == [i \in 1..Len(l) |-> l[i][2]]
Logged(e) == \E i \in 1..Len(log) : log[i] = e
InLoop == pc \in {"RunFrame", "RunMainLoop"}

IsFailure(e) ==
    e[2] \in {"JSEngine.update(gameDeltaSeconds, systemDeltaSeconds) failed",
              "JSEngine.render() failed"}
IsUpdateStep(e) == e[1] = "Update" /\ ~IsFailure(e)
IsRenderStep(e) == e[1] = "Render" /\ ~IsFailure(e)

\* What the Update phase does, in order, with and without the script runtime.
UpdateWithScript ==
    <<"begin", "Clock::TickSystemClock", "ScriptSubsystem::Update",
      "JSEngine.update(gameDeltaSeconds, systemDeltaSeconds)", "end">>
UpdateWithoutScript ==
    <<"begin", "Clock::TickSystemClock", "ScriptSubsystem::Update", "end">>

\* C15: the Update phase ticks the system clock first; then, with the script
\* runtime initialized, it runs the update entry point once, with the two
\* delta times, and without it it runs nothing: no Game::Update.
C15_UpdatePhase ==
    InLoop =>
        LET u == Whats(SelectSeq(log, IsUpdateStep))
            all == IF scriptInitialized THEN UpdateWithScript
                   ELSE UpdateWithoutScript
        IN /\ IsPrefix(u, all)
           /\ Logged(Event("Update", "end")) => u = all

\* An Update phase that has ended without the script runtime.
C15_Witness ==
    /\ InLoop /\ ~scriptInitialized /\ Logged(Event("Update", "end"))
    /\ ~Logged(Event("Update", "Game::Update"))

RenderWithScript ==
    <<"begin", "Renderer::ClearScreen", "JSEngine.render()",
      "DevConsole::Render", "end">>
RenderWithoutScript ==
    <<"begin", "Renderer::ClearScreen", "DevConsole::Render", "end">>

\* C17: the Render phase clears the screen, runs the render entry point
\* once, without arguments, when the script runtime is initialized and
\* nothing (no Game::Render) when it is not, and draws the dev console.
C17_RenderPhase ==
    InLoop =>
        LET r == Whats(SelectSeq(log, IsRenderStep))
            all == IF scriptInitialized THEN RenderWithScript
                   ELSE RenderWithoutScript
        IN /\ IsPrefix(r, all)
           /\ Logged(Event("Render", "end")) => r = all

\* A Render phase that has ended without the script runtime.
C17_Witness ==
    /\ InLoop /\ ~scriptInitialized /\ Logged(Event("Render", "end"))
    /\ Logged(Event("Render", "DevConsole::Render"))
    /\ ~Logged(Event("Render", "Game::Render"))

\* C18: whatever a script or a native method called by it returns, a step
\* taken inside a frame stays in the frame or ends it with all four phases
\* run, and at the loop test the next frame starts unless quit is requested.
C18_FailureDoesNotAbort ==
    [][/\ pc = "RunFrame" => pc' \in {"RunFrame", "RunMainLoop"}
       /\ (pc = "RunFrame" /\ pc' = "RunMainLoop") => FrameComplete(log')
       /\ (pc = "RunMainLoop" /\ ~m_isQuitting) => pc' = "RunFrame"]_vars

\* A frame in which the update and the render entry points both failed has
\* run through EndFrame, and no quit is requested.
C18_Witness ==
    /\ pc = "RunMainLoop" /\ FrameComplete(log) /\ ~m_isQuitting
    /\ Logged(Event("Update", "JSEngine.update(gameDeltaSeconds, systemDeltaSeconds) failed"))
    /\ Logged(Event("Render", "JSEngine.render() failed"))

(***************************************************************************)
(* Properties of Startup and Shutdown.                                     *)
(***************************************************************************)
\* The statements of App::Startup, App::Shutdown and WinMain run so far.
Executed ==
    CASE pc \in {"Startup", "Dead"} -> SubSeq(StartupSteps, 1, si - 1)
      [] pc \in {"RunMainLoop", "RunFrame"} -> StartupSteps
      [] pc = "Shutdown" -> StartupSteps \o SubSeq(ShutdownSteps, 1, si - 1)
      [] OTHER -> StartupSteps \o ShutdownSteps

HasRun(statement) == \E i \in 1..Len(Executed) : Executed[i] = statement
Position(statement) == CHOOSE i \in 1..Len(Executed) : Executed[i] = statement
RanBefore(a, b) == Position(a) < Position(b)

Subsystems ==
    {"EventSystem", "JobSystem", "InputSystem", "Window", "Renderer",
     "DevConsole", "LogSubsystem", "AudioSystem", "ResourceSubsystem",
     "ScriptSubsystem"}

\* The statements that construct, start and shut down a subsystem.
ConstructionOf(x) == "new " \o x
StartOf(x) ==
    CASE x = "JobSystem" -> "new JobSystem"
      [] x = "DevConsole" -> "DevConsole::StartUp"
      [] OTHER -> x \o "::Startup"
ShutdownOf(x) ==
    IF x = "JobSystem" THEN "JobSystem::ShutDown" ELSE x \o "::Shutdown"

\* C19: once Shutdown has run, of any two subsystems the one constructed
\* (and the one started) earlier has been shut down later.
C19_ReverseTeardown ==
    pc = "Exit" =>
        \A a, b \in Subsystems :
            /\ RanBefore(ConstructionOf(a), ConstructionOf(b))
                   => RanBefore(ShutdownOf(b), ShutdownOf(a))
            /\ RanBefore(StartOf(a), StartOf(b))
                   => RanBefore(ShutdownOf(b), ShutdownOf(a))

\* The scriptable objects App holds, the statement that destroys the native
\* object each wraps, and the statement that releases App's reference to it:
\* m_gameScriptInterface is reset in Shutdown, m_inputScriptInterface and
\* m_audioScriptInterface are released when the App itself is deleted.
ScriptInterfaces == {"game", "input", "audio"}
DestructionOf(o) ==
    CASE o = "game" -> "delete g_game"
      [] o = "input" -> "delete g_input"
      [] o = "audio" -> "delete g_audio"
ReleaseOf(o) ==
    IF o = "game" THEN "m_gameScriptInterface.reset" ELSE "delete g_app"

InterfaceLive(o) == HasRun("SetupScriptingBindings") /\ ~HasRun(ReleaseOf(o))

\* C20: no scriptable object is live or registered while the native object
\* it wraps is destroyed.
C20_ReleasedBeforeNative ==
    \A o \in ScriptInterfaces :
        HasRun(DestructionOf(o)) => (~InterfaceLive(o) /\ o \notin registry)

(***************************************************************************)
(* Properties of the order of App::Startup and App::Shutdown, continued.   *)
(***************************************************************************)
\* C21: during shutdown the bitmap font is destroyed before the resource
\* subsystem is shut down and before the renderer is shut down.
C21_FontBeforeRenderer ==
    \A x \in {"ResourceSubsystem::Shutdown", "Renderer::Shutdown"} :
        HasRun(x) =>
            /\ HasRun("delete g_bitmapFont")
            /\ RanBefore("delete g_bitmapFont", x)

\* Shutdown has deleted the font; the resource subsystem and the renderer
\* are still to be shut down.
C21_Witness ==
    /\ pc = "Shutdown"
    /\ HasRun("delete g_bitmapFont")
    /\ ~HasRun("ResourceSubsystem::Shutdown")
    /\ ~HasRun("Renderer::Shutdown")

\* The native subsystems in the order the claim lists them.
NativeConstructions ==
    <<"new EventSystem", "new JobSystem", "new InputSystem", "new Window",
      "new Renderer", "new AudioSystem", "new ResourceSubsystem",
      "new ScriptSubsystem">>

\* Game::PostInit has handed main.mjs, the entry-point module, to the runtime.
EntryPointEntered ==
    pc = "Startup" /\ StartupSteps[si] = "Game::PostInit" /\ sub \in {"script", "done"}

BindingsComplete ==
    /\ registry = {"game", "input", "audio"}
    /\ globalFunctions = {"print", "debug", "gc"}
    /\ m_game = "live"

StartupOrder ==
    /\ \A i, j \in 1..Len(NativeConstructions) :
           i < j /\ HasRun(NativeConstructions[j]) =>
               /\ HasRun(NativeConstructions[i])
               /\ RanBefore(NativeConstructions[i], NativeConstructions[j])
    /\ HasRun("new Game") =>
           \A i \in 1..Len(NativeConstructions) :
               /\ HasRun(NativeConstructions[i])
               /\ RanBefore(NativeConstructions[i], "new Game")
    /\ pc = "Startup" /\ registrations # <<>> => g_game = "live"
    /\ HasRun("SetupScriptingBindings") =>
           HasRun("new Game") /\ RanBefore("new Game", "SetupScriptingBindings")
    /\ EntryPointEntered =>
           HasRun("SetupScriptingBindings") /\ (scriptInitialized => BindingsComplete)
    /\ pc = "RunFrame" => g_game = "live" /\ BindingsComplete

\* C22: App::Startup constructs the native subsystems (event, job, input,
\* window, render, audio, resource, script, in this order), then the Game,
\* then binds the scriptable objects and the global functions, and only then
\* runs the entry-point module; control leaves Startup for the main loop
\* only from the end of its last statement, so no frame runs before that.
C22_StartupOrder ==
    /\ []StartupOrder
    /\ [][pc = "Startup" /\ pc' \notin {"Startup", "Dead"} =>
              /\ pc' = "RunMainLoop"
              /\ si = Len(StartupSteps)
              /\ sub = "done"]_vars

\* The entry-point module is running, with everything bound.
C22_Witness ==
    /\ EntryPointEntered /\ sub = "script"
    /\ HasRun("new Game") /\ HasRun("SetupScriptingBindings")
    /\ BindingsComplete

\* SetupScriptingBindings is about to run and one of its three tests fails.
BindingsPreconditionFails ==
    /\ AtStartup("SetupScriptingBindings")
    /\ ~scriptInitialized \/ g_game = "null"

\* C23: when SetupScriptingBindings is entered with the script subsystem
\* missing or not initialized, or with no game object, the process ends in
\* that step, and no scriptable object and no global function is registered
\* by it: a process that has died has made no registration.
C23_BindingsDie ==
    /\ [][BindingsPreconditionFails =>
              /\ pc' = "Dead"
              /\ UNCHANGED <<registry, globalFunctions, registrations, m_game>>]_vars
    /\ [](pc = "Dead" =>
              /\ registry = {} /\ globalFunctions = {}
              /\ registrations = <<>> /\ m_game = "none")

\* The process has died in SetupScriptingBindings on an uninitialized
\* script subsystem, with a game object in place.
C23_Witness ==
    /\ pc = "Dead" /\ StartupSteps[si] = "SetupScriptingBindings"
    /\ ~scriptInitialized /\ g_game = "live"
    /\ registrations = <<>>

\* How many times `name' has been registered.
TimesRegistered(name) ==
    Cardinality({i \in DOMAIN registrations : registrations[i] = name})

\* C24: from the moment Startup completes and in every frame of the main
\* loop, the registered scriptable objects are exactly game, input and
\* audio and the registered global functions exactly print, debug and gc,
\* and each of the six has been registered exactly once.
C24_BindingsRegistered ==
    (InLoop \/ (pc = "Startup" /\ sub = "done")) =>
        /\ registry = {"game", "input", "audio"}
        /\ globalFunctions = {"print", "debug", "gc"}
        /\ \A name \in registry \cup globalFunctions : TimesRegistered(name) = 1
        /\ Len(registrations) = 6

\* The last phase of a frame, with the six names registered.
C24_Witness ==
    /\ pc = "RunFrame" /\ Phase = "EndFrame"
    /\ registry = {"game", "input", "audio"}
    /\ globalFunctions = {"print", "debug", "gc"}
    /\ TimesRegistered("gc") = 1

(***************************************************************************)
(* Properties of the hot-reload drain and of the registry.                 *)
(***************************************************************************)
\* g_scriptSubsystem->Update(), the call that drains pending hot-reload work.
IsDrain(e) == e[2] = "ScriptSubsystem::Update"
Drains == SelectSeq(log, IsDrain)

\* C25: the pending hot-reload work is drained once per frame, in the
\* Update phase, after the clock tick and before the update entry point of
\* the script is called; no drain happens in BeginFrame, Render or EndFrame,
\* and the reloaded scripts run only at that point.
C25_HotReloadDrain ==
    /\ \A i \in 1..Len(log) : IsDrain(log[i]) => log[i][1] = "Update"
    /\ Len(Drains) <= 1
    /\ Logged(Event("Update", "end")) => Len(Drains) = 1
    /\ \A j \in 1..Len(log) :
           log[j] = Event("Update", UpdateJSCommand) =>
               \E i \in 1..(j - 1) : IsDrain(log[i])
    /\ sub = "reload" =>
           /\ pc = "RunFrame" /\ Phase = "Update"
           /\ Len(Drains) = 1
           /\ ~Logged(Event("Update", UpdateJSCommand))

\* A reloaded script is running at the drain point and has called the
\* game object.
C25_Witness ==
    /\ InPhase("Update", "reload")
    /\ last.op = "CallMethod"
    /\ Len(Drains) = 1

\* A step that registers or unregisters an object or a global function.
RegistryMutated ==
    \/ registry' # registry
    \/ globalFunctions' # globalFunctions
    \/ registrations' # registrations

\* C27: a step changes the object registry or the global function table
\* only if it is SetupScriptingBindings during startup, a step of Shutdown,
\* or a step at the hot-reload drain point of the Update phase; no step
\* taken while a script entry point called by the frame loop is running
\* changes them.
C27_RegistryMutation ==
    [][/\ RegistryMutated =>
              \/ AtStartup("SetupScriptingBindings")
              \/ pc = "Shutdown"
              \/ InPhase("Update", "reload")
       /\ pc = "RunFrame" /\ sub = "script" => ~RegistryMutated]_vars

\* Shutdown has emptied the registry that SetupScriptingBindings had
\* filled; the interfaces are still to be released.
C27_Witness ==
    /\ pc = "Shutdown"
    /\ registrations # <<>>
    /\ registry = {} /\ globalFunctions = {}
    /\ m_game = "live"

ConstructorScriptRunning ==
    pc = "Startup" /\ StartupSteps[si] = "new Game" /\ sub = "script"

\* C30: the Game constructor executes test_scripts.js, and does so before
\* anything is registered: while that script runs no scriptable object and
\* no global function is registered and SetupScriptingBindings has not
\* run, and nothing is registered before the constructor has run.  Entered
\* without an initialized script subsystem, the constructor ends the
\* process.
C30_ConstructorScript ==
    /\ [](ConstructorScriptRunning =>
              /\ scriptInitialized
              /\ registry = {} /\ globalFunctions = {} /\ registrations = <<>>
              /\ ~HasRun("SetupScriptingBindings"))
    /\ [](registrations # <<>> => HasRun("new Game"))
    /\ [][AtStartup("new Game") =>
              IF scriptInitialized THEN ConstructorScriptRunning'
              ELSE pc' = "Dead"]_vars

\* test_scripts.js is running in the constructor; g_game is not assigned yet.
C30_Witness ==
    /\ ConstructorScriptRunning
    /\ g_game = "null"
    /\ registry = {}

(***************************************************************************)
(* Properties of the bridge, continued.                                    *)
(***************************************************************************)
\* C31: a dispatched method called with the right number of arguments, one
\* of which is not of the type the method extracts, returns an Error and
\* leaves the props, the player, the game state and the quit flag as they
\* were.
C31_ExtractionFailure ==
    (CalledMethod /\ last.name \in DispatchedMethodNames
         /\ Len(last.args) = Arity(last.name)
         /\ ~WellTyped(last.name, last.args))
    => (~last.res.success /\ ~last.res.escaped /\ Native = last.pre)

\* moveProp with a valid index and a coordinate that is not a number.
C31_Witness ==
    /\ CalledMethod /\ last.name = "moveProp" /\ Len(last.args) = 4
    /\ last.args[1] = Num(0) /\ last.args[4].t = "str"
    /\ ~last.res.success /\ Native = last.pre

\* C32: moveProp called with an integer and three numbers returns Success
\* whether the index names a prop or not; with an index out of range it
\* still returns Success, and changes nothing.
C32_MovePropAlwaysSucceeds ==
    (CalledMethod /\ last.name = "moveProp" /\ WellTyped("moveProp", last.args))
    => /\ last.res.success
       /\ (last.args[1].n < 0 \/ last.args[1].n >= Len(last.pre.m_props))
              => Native = last.pre

\* moveProp(99, ...) has returned Success.
C32_Witness ==
    /\ CalledMethod /\ last.name = "moveProp" /\ WellTyped("moveProp", last.args)
    /\ last.args[1].n >= Len(last.pre.m_props)
    /\ last.res.success

\* C33: executeCommand and executeFile called with one string return
\* Success, whether the command or the file ran through or failed.
C33_ExecutionFailureHidden ==
    (CalledMethod /\ last.name \in {"executeCommand", "executeFile"}
         /\ WellTyped(last.name, last.args))
    => last.res.success

\* executeFile has returned Success for a file whose execution failed.
C33_Witness ==
    /\ CalledMethod /\ last.name = "executeFile"
    /\ WellTyped("executeFile", last.args)
    /\ last.in.scriptFails
    /\ last.res.success

(***************************************************************************)
(* Properties of the native game state.                                    *)
(***************************************************************************)
\* movePlayerCamera has just returned Success.
CameraMoved ==
    CalledMethod /\ last.name = "movePlayerCamera" /\ last.res.success

\* C34: the offsets of movePlayerCamera do not accumulate.  The first
\* successful call captures the player's position as the baseline; once
\* captured, the baseline never changes; and after every successful
\* movePlayerCamera(o) the player is at the baseline plus o, wherever the
\* player was before the call.
C34_CameraBaseline ==
    /\ [](CameraMoved =>
              /\ game.m_cameraShakeActive
              /\ ~last.pre.m_cameraShakeActive =>
                     game.m_originalPlayerPosition = last.pre.m_playerPosition
              /\ game.m_playerPosition =
                     Vec3Add(game.m_originalPlayerPosition, VecOf(last.args, 1)))
    /\ [][game.m_cameraShakeActive =>
              /\ game.m_cameraShakeActive'
              /\ game.m_originalPlayerPosition' = game.m_originalPlayerPosition]_vars

\* A later call, made after the player has left the place the previous
\* call put it at: the player is back at the baseline plus the offset.
C34_Witness ==
    /\ CameraMoved
    /\ last.pre.m_cameraShakeActive
    /\ last.pre.m_playerPosition # game.m_playerPosition
    /\ VecOf(last.args, 1) # ZERO
    /\ game.m_playerPosition =
           Vec3Add(game.m_originalPlayerPosition, VecOf(last.args, 1))

\* What a script sees of the game state through the three views.
ViewIsAttractMode == ExecuteIsAttractMode(Native, <<>>).res.msg = "true"
ViewAttractMode == GetProperty(Native, "attractMode") = Bool(TRUE)
ViewGameState == GetProperty(Native, "gameState")

\* C35: the game state is always ATTRACT or GAME and is ATTRACT when the
\* Game has been constructed; isAttractMode(), the attractMode property and
\* the gameState property agree on it in every state; the gameState
\* property is never "UNKNOWN".
C35_GameStateViews ==
    /\ [](g_game = "live" =>
              /\ game.m_gameState \in eGameState
              /\ ViewIsAttractMode <=> ViewAttractMode
              /\ ViewAttractMode <=> (ViewGameState = Str("ATTRACT"))
              /\ ~ViewAttractMode <=> (ViewGameState = Str("GAME"))
              /\ ViewGameState # Str("UNKNOWN"))
    /\ [][AtStartup("new Game") => game.m_gameState' = ATTRACT]_vars
    /\ [](ConstructorScriptRunning => game.m_gameState = ATTRACT)

\* The game is in GAME and the three views say so.
C35_Witness ==
    /\ g_game = "live" /\ game.m_gameState = GAME
    /\ ~ViewIsAttractMode /\ ~ViewAttractMode
    /\ ViewGameState = Str("GAME")

\* The number of props.
PropCount == Len(game.m_props)

\* C36: while the Game exists it has at least the four props of its
\* constructor, and their number never goes down; a step that changes the
\* number is a successful createCube and adds exactly one, and every
\* successful createCube does; so the per-frame update, which indexes
\* props 0, 1 and 2, always finds them.
C36_PropCount ==
    /\ [](g_game = "live" => PropCount >= Len(InitialProps))
    /\ [](CalledMethod /\ last.name = "update" => Len(last.pre.m_props) > 2)
    /\ [](CalledMethod /\ last.name = "createCube" /\ last.res.success =>
              PropCount = Len(last.pre.m_props) + 1)
    /\ [][g_game = "live" /\ g_game' = "live" /\ PropCount' # PropCount =>
              /\ PropCount' = PropCount + 1
              /\ last'.op = "CallMethod" /\ last'.name = "createCube"
              /\ last'.res.success]_vars

\* A cube has been created and the per-frame update has run after it.
C36_Witness ==
    /\ CalledMethod /\ last.name = "update" /\ last.res.success
    /\ Len(last.pre.m_props) = Len(InitialProps) + 1
    /\ PropCount = Len(InitialProps) + 1

\* The game as the keyboard handler of the last update call found it, and as
\* the controller handler found it after the keyboard handler.
BeforeKeyBoard == UpdateEntities(last.pre, last.in)
BeforeController == UpdateFromKeyBoard(BeforeKeyBoard, last.in)
AfterController == UpdateFromController(BeforeController, last.in)

\* ESC or BACK in GAME: the device returns the state to ATTRACT and does not
\* request quit; the same button in ATTRACT: the device requests quit and
\* the state stays ATTRACT.
EscAndBackTransitions ==
    /\ (BeforeKeyBoard.m_gameState = GAME /\ last.in.esc) =>
           /\ BeforeController.m_gameState = ATTRACT
           /\ BeforeController.m_isQuitting = BeforeKeyBoard.m_isQuitting
    /\ (BeforeController.m_gameState = GAME /\ last.in.back) =>
           /\ AfterController.m_gameState = ATTRACT
           /\ AfterController.m_isQuitting = BeforeController.m_isQuitting
    /\ (BeforeKeyBoard.m_gameState = ATTRACT /\ last.in.esc) =>
           /\ BeforeController.m_isQuitting
           /\ BeforeController.m_gameState = ATTRACT
    /\ (BeforeController.m_gameState = ATTRACT /\ last.in.back) =>
           /\ AfterController.m_isQuitting
           /\ AfterController.m_gameState = ATTRACT

\* START in ATTRACT: the controller handler leaves the state GAME.
StartTransition ==
    (BeforeController.m_gameState = ATTRACT /\ last.in.start) =>
        AfterController.m_gameState = GAME

\* C37: in every update call, ESC or BACK pressed in GAME returns the state
\* to ATTRACT without a quit request from that device, the same button
\* pressed in ATTRACT requests quit and leaves the state ATTRACT, and START
\* pressed in ATTRACT switches the state to GAME.
C37_InputTransitions ==
    (CalledMethod /\ last.name = "update" /\ last.res.success) =>
        (EscAndBackTransitions /\ StartTransition)

\* SetupScriptingBindings has returned and Game::PostInit is the statement
\* Startup runs next.
BindingsReturned ==
    pc = "Startup" /\ StartupSteps[si] = "Game::PostInit" /\ sub = "run"

\* C38: whatever InitializeHotReload answers, the step that asks it also
\* registers game, input, audio, print, debug and gc, in this order, and
\* leaves Startup at its next statement, Game::PostInit; from there the
\* entry-point module is entered, after a success and after a failure alike.
C38_HotReloadNotFatal ==
    /\ [][hotReload' # hotReload =>
              /\ hotReload = "none" /\ hotReload' \in {"ok", "failed"}
              /\ registrations = <<>>
              /\ registrations' = <<"game", "input", "audio", "print", "debug", "gc">>
              /\ BindingsComplete'
              /\ BindingsReturned']_vars
    /\ [](hotReload = "none" => registrations = <<>>)
    /\ (BindingsReturned /\ hotReload = "failed") ~> EntryPointEntered
    /\ (BindingsReturned /\ hotReload = "ok") ~> EntryPointEntered

\* Hot reload failed to initialize, and the entry-point module is running
\* with everything bound.
C38_Witness ==
    /\ hotReload = "failed"
    /\ EntryPointEntered /\ sub = "script"
    /\ BindingsComplete
    /\ registrations = <<"game", "input", "audio", "print", "debug", "gc">>

====
